---- MODULE Spec2Model ----
(***************************************************************************)
(* Model of the ride-matching core of src/src/Map.tsx: haversineDistance,  *)
(* minDistanceToRoute, isCorrectDirection, estimateDetourDistance,         *)
(* detourDistanceToMinutes and findMatches; of the progress bar of         *)
(* HomeScreen; and of the PAR-103 marker animation of Map.                 *)
(*                                                                         *)
(* JavaScript numbers that can be fractional or non-finite (coordinates,   *)
(* distances, minutes, scores) are records [kind, v]: kind "num" holds the *)
(* value in thousandths (decimal fixed point, exact for every value the    *)
(* model produces), kind "nan" is NaN and kind "inf" is +/-Infinity.        *)
(* Timestamps (Date.getTime()) and seat counts are plain integers.         *)
(*                                                                         *)
(* offers, request, currentTime, pc, pos and results are one call of       *)
(* findMatches.  returns holds what the calls made before it returned, and *)
(* engineSort what Array.prototype.sort of the running JavaScript engine   *)
(* has answered so far: the engine's sort is one algorithm, so it gives    *)
(* the same array again when it is given the same array again.             *)
(***************************************************************************)
EXTENDS Integers, Sequences, FiniteSets

VARIABLES offers, request, currentTime, pc, pos, results, returns, engineSort,
          estimate,
          selectedRoute, effectPending, progress, intervalId, progressTimers,
          timersCreated, homeMounted,
          par103Coords, moveIntervalRef, moveTimers, movingMarkerRef, clicks,
          mapMounted

matcherVars == <<offers, request, currentTime, pc, pos, results, returns, engineSort>>

\* HomeScreen: the selectedRoute and progress states and the interval of the
\* progress-bar effect.
homeVars ==
    <<selectedRoute, effectPending, progress, intervalId, progressTimers,
      timersCreated, homeMounted>>

\* Map: the refs of the PAR-103 marker animation.
mapVars ==
    <<par103Coords, moveIntervalRef, moveTimers, movingMarkerRef, clicks, mapMounted>>

\* The variables that a call of findMatches on given offers does not touch.
outsideMatcher == <<estimate, homeVars, mapVars>>

vars == <<matcherVars, outsideMatcher>>

----------------------------------------------------------------------------
(* IEEE-754 numbers, as far as the matcher uses them.                      *)

Scale == 10 * 10 * 10

Num(n) == [kind |-> "num", v |-> n * Scale]

NaN == [kind |-> "nan", v |-> 0]

Infinity == [kind |-> "inf", v |-> 1]

NegInfinity == [kind |-> "inf", v |-> -1]

IsFinite(x) == x.kind = "num"

IsNaN(x) == x.kind = "nan"

\* x < y of JavaScript: false as soon as one side is NaN.
Lt(x, y) ==
    IF IsFinite(x) /\ IsFinite(y) THEN x.v < y.v
    ELSE IF IsNaN(x) \/ IsNaN(y) THEN FALSE
    ELSE IF IsFinite(x) THEN y = Infinity
    ELSE IF IsFinite(y) THEN x = NegInfinity
    ELSE x = NegInfinity /\ y = Infinity

\* x > y of JavaScript.
Gt(x, y) == Lt(y, x)

\* x <= y of JavaScript: false as soon as one side is NaN.
Le(x, y) == ~IsNaN(x) /\ ~IsNaN(y) /\ ~Lt(y, x)

Neg(x) ==
    IF IsFinite(x) THEN [kind |-> "num", v |-> 0 - x.v]
    ELSE IF IsNaN(x) THEN NaN
    ELSE IF x = Infinity THEN NegInfinity ELSE Infinity

\* x + y of JavaScript: Infinity + -Infinity is NaN.
Add(x, y) ==
    IF IsFinite(x) /\ IsFinite(y) THEN [kind |-> "num", v |-> x.v + y.v]
    ELSE IF IsNaN(x) \/ IsNaN(y) THEN NaN
    ELSE IF IsFinite(x) THEN y
    ELSE IF IsFinite(y) THEN x
    ELSE IF x = y THEN x ELSE NaN

Sub(x, y) == Add(x, Neg(y))

\* x * y and x / y.  The matcher multiplies and divides by whole numbers
\* only (2, 1000, 60, the speed), which keeps the thousandths exact.
Mul(x, y) ==
    IF IsFinite(x) /\ IsFinite(y)
    THEN [kind |-> "num",
          v |-> IF y.v % Scale = 0 THEN x.v * (y.v \div Scale)
                ELSE IF x.v % Scale = 0 THEN (x.v \div Scale) * y.v
                ELSE (x.v * y.v) \div Scale]
    ELSE IF IsNaN(x) \/ IsNaN(y) THEN NaN
    ELSE IF IsFinite(x) THEN (IF x.v > 0 THEN y ELSE IF x.v < 0 THEN Neg(y) ELSE NaN)
    ELSE IF IsFinite(y) THEN (IF y.v > 0 THEN x ELSE IF y.v < 0 THEN Neg(x) ELSE NaN)
    ELSE IF x = y THEN Infinity ELSE NegInfinity

Div(x, y) ==
    IF IsFinite(x) /\ IsFinite(y) /\ y.v # 0
    THEN [kind |-> "num",
          v |-> IF y.v % Scale = 0 THEN x.v \div (y.v \div Scale)
                ELSE (x.v * Scale) \div y.v]
    ELSE IF IsNaN(x) \/ IsNaN(y) THEN NaN
    ELSE IF IsFinite(y) /\ y.v > 0 THEN x
    ELSE IF IsFinite(y) /\ y.v < 0 THEN Neg(x)
    ELSE IF IsFinite(x) /\ ~IsFinite(y) THEN Num(0)
    ELSE NaN

----------------------------------------------------------------------------
(* Geometry.  Finite coordinates lie on the equator (lat = 0) and their    *)
(* longitude is counted in grid steps; one step is the arc that a driver   *)
(* covers in half a minute at the default 30 km/h (250 m).  On the         *)
(* equator aa = sin^2(dLambda/2), so c = |dLambda| and R * c is the arc    *)
(* length between the two longitudes: UnitMeters for each grid step.  A    *)
(* non-finite latitude or longitude makes an argument of Math.sin or       *)
(* Math.cos non-finite (Infinity - Infinity is NaN); their value is then   *)
(* NaN, and NaN spreads through aa, c and R * c.                           *)

UnitMeters == ((30 * 1000) \div 60) \div 2

Coordinate(lat, lon) == [lat |-> lat, lon |-> lon]

haversineDistance(a, b) ==
    IF IsFinite(a.lat) /\ IsFinite(b.lat) /\ IsFinite(a.lon) /\ IsFinite(b.lon)
    THEN LET dLambda == b.lon.v - a.lon.v
         IN  [kind |-> "num", v |-> UnitMeters * (IF dLambda < 0 THEN 0 - dLambda ELSE dLambda)]
    ELSE NaN

RECURSIVE minDistanceFrom(_, _, _, _)
minDistanceFrom(point, route, k, minDist) ==
    IF k > Len(route) THEN minDist
    ELSE LET dist == haversineDistance(point, route[k])
         IN  minDistanceFrom(point, route, k + 1, IF Lt(dist, minDist) THEN dist ELSE minDist)

minDistanceToRoute(point, route) == minDistanceFrom(point, route, 1, Infinity)

\* Mutant: the indices are compared without the test for the sentinel -1.
isCorrectDirectionUnchecked(pickupIdx, dropoffIdx) == pickupIdx <= dropoffIdx

\* Mutant: equal indices are taken as a valid (zero-length) ride.
isCorrectDirectionNonStrict(pickupIdx, dropoffIdx) ==
    pickupIdx >= 0 /\ dropoffIdx >= 0 /\ pickupIdx <= dropoffIdx

isCorrectDirection(pickupIdx, dropoffIdx) ==
    pickupIdx >= 0 /\ dropoffIdx >= 0 /\ pickupIdx < dropoffIdx

estimateDetourDistance(offer, pickupPoint, dropoffPoint) ==
    LET directDistance == haversineDistance(offer.departure, offer.destination)
        toPickup       == haversineDistance(offer.departure, pickupPoint)
        betweenStops   == haversineDistance(pickupPoint, dropoffPoint)
        toDestination  == haversineDistance(dropoffPoint, offer.destination)
    IN  Sub(Add(Add(toPickup, betweenStops), toDestination), directDistance)

avgSpeedKph == 30

\* Mutant: a negative detour is raised to zero before it is converted.
detourDistanceToMinutesClamped(detourMeters) ==
    LET speedMetersPerMin == Div(Mul(Num(avgSpeedKph), Num(1000)), Num(60))
    IN  Div(IF Lt(detourMeters, Num(0)) THEN Num(0) ELSE detourMeters, speedMetersPerMin)

detourDistanceToMinutes(detourMeters) ==
    LET speedMetersPerMin == Div(Mul(Num(avgSpeedKph), Num(1000)), Num(60))
    IN  Div(detourMeters, speedMetersPerMin)

----------------------------------------------------------------------------
(* findMatches: the values computed for one offer and one request.         *)

\* Mutant: the rideNow flag is ignored and every request gets 15 minutes.
timeMarginIgnoringRideNow(req) == 15

timeMarginMinutes(req) == IF req.rideNow THEN 5 ELSE 15

requestedTime(req) == req.departureTime

\* Mutant: the window is laid around the currentTime argument.
windowStartFromCurrentTime(req) == currentTime - timeMarginMinutes(req) * 60 * 1000

windowStart(req) == requestedTime(req) - timeMarginMinutes(req) * 60 * 1000

windowEnd(req) == requestedTime(req) + timeMarginMinutes(req) * 60 * 1000

pickupDistance(offer, req) == minDistanceToRoute(req.from, offer.route)

dropoffDistance(offer, req) == minDistanceToRoute(req.to, offer.route)

\* route.reduce((bestIdx, node, idx) => ..., -1), with 0-based indices as in
\* the source: node idx is route[idx + 1] of the TLA+ sequence.
RECURSIVE nearestReduce(_, _, _, _)
nearestReduce(point, route, idx, bestIdx) ==
    IF idx >= Len(route) THEN bestIdx
    ELSE LET bestDist == IF bestIdx >= 0
                         THEN haversineDistance(point, route[bestIdx + 1])
                         ELSE Infinity
             dist     == haversineDistance(point, route[idx + 1])
         IN  nearestReduce(point, route, idx + 1, IF Lt(dist, bestDist) THEN idx ELSE bestIdx)

pickupIdx(offer, req) == nearestReduce(req.from, offer.route, 0, -1)

dropoffIdx(offer, req) == nearestReduce(req.to, offer.route, 0, -1)

detourMeters(offer, req) == estimateDetourDistance(offer, req.from, req.to)

detourMinutes(offer, req) == detourDistanceToMinutes(detourMeters(offer, req))

\* Mutant: a minute of detour weighs as much as one kilometre of walking.
scoreEqualWeights(offer, req) ==
    Add(detourMinutes(offer, req),
        Div(Add(pickupDistance(offer, req), dropoffDistance(offer, req)), Num(1000)))

\* detourMinutes * 2 + (pickupDistance + dropoffDistance) / 1000
scoreFrom(minutes, pickupDist, dropoffDist) ==
    Add(Mul(minutes, Num(2)), Div(Add(pickupDist, dropoffDist), Num(1000)))

score(offer, req) ==
    scoreFrom(detourMinutes(offer, req), pickupDistance(offer, req), dropoffDistance(offer, req))

(* The conditions of the five `continue` statements.                       *)

\* Mutant: only a seat count of exactly zero is refused.
noFreeSeatsZeroOnly(offer) == offer.freeSeats = 0

noFreeSeats(offer) == offer.freeSeats <= 0

outsideWindow(offer, req) ==
    LET offerTime == offer.departureTime
    IN  offerTime < windowStart(req) \/ offerTime > windowEnd(req)

\* Mutant: the walk to the drop-off point is not tested.
tooFarToWalkPickupOnly(offer, req) ==
    Gt(pickupDistance(offer, req), req.maxWalkMeters)

tooFarToWalk(offer, req) ==
    \/ Gt(pickupDistance(offer, req), req.maxWalkMeters)
    \/ Gt(dropoffDistance(offer, req), req.maxWalkMeters)

wrongDirection(offer, req) ==
    ~isCorrectDirection(pickupIdx(offer, req), dropoffIdx(offer, req))

\* Mutant: only the global ceiling is tested, not the offer's own limit.
detourTooLongCeilingOnly(offer, req) == Gt(detourMinutes(offer, req), Num(5))

\* detourMinutes > offer.maxDetourMinutes || detourMinutes > 5
exceedsDetour(minutes, offer) ==
    \/ Gt(minutes, offer.maxDetourMinutes)
    \/ Gt(minutes, Num(5))

detourTooLong(offer, req) == exceedsDetour(detourMinutes(offer, req), offer)

\* Mutant: the score is kept in a variable that outlives the iteration and is
\* added to, so an entry's score includes the score pushed before it.
loopBodyCarryingScore(acc, offer, ref, req) ==
    IF noFreeSeats(offer) \/ outsideWindow(offer, req) \/ tooFarToWalk(offer, req)
       \/ wrongDirection(offer, req) \/ detourTooLong(offer, req)
    THEN acc
    ELSE Append(acc, [offer |-> ref,
                      score |-> Add(score(offer, req),
                                    IF acc = <<>> THEN Num(0) ELSE acc[Len(acc)].score)])

\* One iteration of `for (const offer of offers)`: the results array after the
\* body has run for offer, whose place in offers is ref.
loopBody(acc, offer, ref, req) ==
    IF noFreeSeats(offer) THEN acc
    ELSE IF outsideWindow(offer, req) THEN acc
    ELSE IF tooFarToWalk(offer, req) THEN acc
    ELSE IF wrongDirection(offer, req) THEN acc
    ELSE IF detourTooLong(offer, req) THEN acc
    ELSE Append(acc, [offer |-> ref, score |-> score(offer, req)])

----------------------------------------------------------------------------
(* results.sort((a, b) => a.score - b.score).  The comparator's value v is *)
(* read as +0 when it is NaN (ECMAScript SortCompare).  Array.prototype    *)
(* .sort is stable when the comparator is a consistent comparison function *)
(* for the elements; when it is not, the order is implementation-defined:  *)
(* any permutation of the elements.                                        *)

comparator(a, b) == Sub(a.score, b.score)

SortCompare(a, b) ==
    LET v == comparator(a, b)
    IN  IF IsNaN(v) THEN 0
        ELSE IF Lt(v, Num(0)) THEN -1
        ELSE IF Gt(v, Num(0)) THEN 1 ELSE 0

Elements(s) == {s[k] : k \in 1..Len(s)}

ConsistentComparator(s) ==
    \A a, b, c \in Elements(s) :
        /\ SortCompare(a, a) = 0
        /\ (SortCompare(a, b) = 0 => SortCompare(b, a) = 0)
        /\ (SortCompare(a, b) < 0 => SortCompare(b, a) > 0)
        /\ (SortCompare(a, b) = 0 /\ SortCompare(b, c) = 0 => SortCompare(a, c) = 0)
        /\ (SortCompare(a, b) < 0 /\ SortCompare(b, c) < 0 => SortCompare(a, c) < 0)
        /\ (SortCompare(a, b) > 0 /\ SortCompare(b, c) > 0 => SortCompare(a, c) > 0)

\* e placed after the last element of the sorted sequence that is not greater.
RECURSIVE InsertSorted(_, _)
InsertSorted(sorted, e) ==
    IF sorted = <<>> THEN <<e>>
    ELSE IF SortCompare(sorted[Len(sorted)], e) <= 0 THEN Append(sorted, e)
    ELSE Append(InsertSorted(SubSeq(sorted, 1, Len(sorted) - 1), e), sorted[Len(sorted)])

RECURSIVE StableSort(_)
StableSort(s) ==
    IF s = <<>> THEN <<>>
    ELSE InsertSorted(StableSort(SubSeq(s, 1, Len(s) - 1)), s[Len(s)])

Reorderings(s) ==
    {[k \in 1..Len(s) |-> s[f[k]]] :
        f \in {g \in [1..Len(s) -> 1..Len(s)] : \A x, y \in 1..Len(s) : x # y => g[x] # g[y]}}

sortOutcomes(s) == IF ConsistentComparator(s) THEN {StableSort(s)} ELSE Reorderings(s)

\* The loop over a whole offer list, from position k on.
RECURSIVE forEachOffer(_, _, _, _)
forEachOffer(offerList, req, k, acc) ==
    IF k > Len(offerList) THEN acc
    ELSE forEachOffer(offerList, req, k + 1, loopBody(acc, offerList[k], k, req))

\* results.sort(...) as the running engine performs it: the permutation it
\* gave for this array before, or one of sortOutcomes when the array is new.
sortByEngine(s) ==
    IF s \in DOMAIN engineSort THEN {engineSort[s]} ELSE sortOutcomes(s)

\* The arrays a call findMatches(offerList, req, now) can return.
findMatches(offerList, req, now) == sortOutcomes(forEachOffer(offerList, req, 1, <<>>))

----------------------------------------------------------------------------
(* Inputs.  The request asks for a ride from grid step 1 to grid step 3.   *)
(* A probe offer differs from the base offer in one group of fields        *)
(* (seats, departure time, detour, route, malformed coordinates).  An      *)
(* offer list is either up to MaxOffers context offers in any order, or up *)
(* to MaxProbeListLen offers of which one is a probe and the others are    *)
(* the base offer.                                                         *)

MaxOffers == 3

MaxProbeListLen == 2

MaxRouteLen == 2

P(k) == Coordinate(Num(0), Num(k))

ReqTime == 20 * 60 * 1000

Requests ==
    [from : {P(1)}, to : {P(3)}, departureTime : {ReqTime},
     maxWalkMeters : {Num(0), Num(UnitMeters), Infinity}, rideNow : BOOLEAN]

CurrentTimes == {ReqTime - 3 * 60 * 1000}

BaseOffer ==
    [departure |-> P(1), destination |-> P(3), departureTime |-> ReqTime,
     maxDetourMinutes |-> Num(10), freeSeats |-> 1, route |-> <<P(1), P(3)>>]

SeatOffers == {[BaseOffer EXCEPT !.freeSeats = n] : n \in {-1, 0, 2}}

TimeOffsets ==
    {0 - 15 * 60 * 1000 - 1, 0 - 15 * 60 * 1000, 0 - 5 * 60 * 1000 - 1, 0 - 5 * 60 * 1000,
     5 * 60 * 1000, 5 * 60 * 1000 + 1, 15 * 60 * 1000, 15 * 60 * 1000 + 1}

TimeOffers == {[BaseOffer EXCEPT !.departureTime = ReqTime + d] : d \in TimeOffsets}

\* Departures 1, 5, 6, 7, 9 with destination 9 give detours of 0, 4, 5, 6 and
\* 8 minutes for the request from 1 to 3.
DetourOffers ==
    {[BaseOffer EXCEPT !.departure = P(a), !.destination = P(9), !.maxDetourMinutes = Num(m)] :
        a \in {1, 5, 6, 7, 9}, m \in {3, 4, 10}}

Waypoints == {P(0), P(1), P(2), P(3)}

Routes == UNION {[1..n -> Waypoints] : n \in 0..MaxRouteLen}

RouteOffers == {[BaseOffer EXCEPT !.route = r] : r \in Routes}

NonFinitePoints ==
    {Coordinate(NaN, NaN), Coordinate(Num(0), NaN), Coordinate(Infinity, Num(1)),
     Coordinate(Num(0), NegInfinity)}

MalformedOffers ==
    {[BaseOffer EXCEPT !.departure = c] : c \in NonFinitePoints}
    \cup {[BaseOffer EXCEPT !.destination = c] : c \in NonFinitePoints}
    \cup {[BaseOffer EXCEPT !.route = r] :
            r \in {<<c>> : c \in NonFinitePoints}
                  \cup {<<c, P(3)>> : c \in NonFinitePoints}
                  \cup {<<P(1), c>> : c \in NonFinitePoints}
                  \cup {<<P(1), P(3), Coordinate(NaN, NaN)>>,
                        <<Coordinate(NaN, NaN), P(1), P(3)>>,
                        <<P(1), Coordinate(NaN, NaN), P(3)>>}}

\* A well-formed offer with a 4-minute detour and a 250 m walk to the pickup.
DetourAndWalkOffer ==
    [BaseOffer EXCEPT !.departure = P(5), !.destination = P(9), !.route = <<P(2), P(3)>>]

ProbeOffers ==
    SeatOffers \cup TimeOffers \cup DetourOffers \cup RouteOffers \cup MalformedOffers

\* The base offer, an offer with a NaN departure, and the offer with a detour
\* and a walk.
ContextOffers ==
    {BaseOffer, [BaseOffer EXCEPT !.departure = Coordinate(NaN, NaN)], DetourAndWalkOffer}

ContextLists == UNION {[1..n -> ContextOffers] : n \in 0..MaxOffers}

ProbeLists ==
    UNION {{[[i \in 1..n |-> BaseOffer] EXCEPT ![k] = p] : k \in 1..n, p \in ProbeOffers} :
           n \in 1..MaxProbeListLen}

OfferLists == ContextLists \cup ProbeLists

----------------------------------------------------------------------------
(* The values of the variables of a part of the program that is not        *)
(* running.                                                                *)

null == -1

NoHomeScreen ==
    /\ selectedRoute = null
    /\ effectPending = FALSE
    /\ progress = 0
    /\ intervalId = null
    /\ progressTimers = {}
    /\ timersCreated = 0
    /\ homeMounted = FALSE

NoMap ==
    /\ par103Coords = 0
    /\ moveIntervalRef = null
    /\ moveTimers = <<>>
    /\ movingMarkerRef = null
    /\ clicks = 0
    /\ mapMounted = FALSE

NoCall ==
    /\ offers = <<>>
    /\ request \in {r \in Requests : r.rideNow /\ r.maxWalkMeters = Num(UnitMeters)}
    /\ currentTime \in CurrentTimes
    /\ pc = "done"
    /\ pos = 1
    /\ results = <<>>
    /\ returns = <<>>
    /\ engineSort = <<>>
    /\ estimate = Num(0)

----------------------------------------------------------------------------
(* findMatches as a state machine: pos is the loop's position in offers,   *)
(* results the array being built; an entry's offer is the position of the  *)
(* offer object in offers (a reference, not a copy).                       *)

Init ==
    /\ offers \in OfferLists
    /\ request \in Requests
    /\ currentTime \in CurrentTimes
    /\ pc = "loop"
    /\ pos = 1
    /\ results = <<>>
    /\ returns = <<>>
    /\ engineSort = <<>>
    /\ estimate = Num(0)
    /\ NoHomeScreen
    /\ NoMap

InLoop == pc = "loop" /\ pos <= Len(offers)

\* Mutant: the matcher books a seat of every offer it pushes.
IterateTakingSeat ==
    /\ results' = loopBody(results, offers[pos], pos, request)
    /\ pos' = pos + 1
    /\ offers' = IF results' = results THEN offers
                 ELSE [offers EXCEPT ![pos].freeSeats = @ - 1]
    /\ UNCHANGED <<request, currentTime, pc, returns, engineSort, outsideMatcher>>

\* The body runs for offers[pos] and the loop moves on.
Iterate ==
    /\ results' = loopBody(results, offers[pos], pos, request)
    /\ pos' = pos + 1
    /\ UNCHANGED <<offers, request, currentTime, pc, returns, engineSort, outsideMatcher>>

\* if (offer.freeSeats <= 0) continue;
SkipNoFreeSeats ==
    /\ InLoop
    /\ noFreeSeats(offers[pos])
    /\ Iterate

\* if (offerTime < windowStart || offerTime > windowEnd) continue;
SkipOutsideWindow ==
    /\ InLoop
    /\ ~noFreeSeats(offers[pos])
    /\ outsideWindow(offers[pos], request)
    /\ Iterate

\* if (pickupDistance > maxWalkMeters || dropoffDistance > maxWalkMeters) continue;
SkipTooFarToWalk ==
    /\ InLoop
    /\ ~noFreeSeats(offers[pos])
    /\ ~outsideWindow(offers[pos], request)
    /\ tooFarToWalk(offers[pos], request)
    /\ Iterate

\* if (!isCorrectDirection(pickupIdx, dropoffIdx)) continue;
SkipWrongDirection ==
    /\ InLoop
    /\ ~noFreeSeats(offers[pos])
    /\ ~outsideWindow(offers[pos], request)
    /\ ~tooFarToWalk(offers[pos], request)
    /\ wrongDirection(offers[pos], request)
    /\ Iterate

\* if (detourMinutes > offer.maxDetourMinutes || detourMinutes > 5) continue;
SkipDetourTooLong ==
    /\ InLoop
    /\ ~noFreeSeats(offers[pos])
    /\ ~outsideWindow(offers[pos], request)
    /\ ~tooFarToWalk(offers[pos], request)
    /\ ~wrongDirection(offers[pos], request)
    /\ detourTooLong(offers[pos], request)
    /\ Iterate

\* results.push({ offer, score });
PushResult ==
    /\ InLoop
    /\ ~noFreeSeats(offers[pos])
    /\ ~outsideWindow(offers[pos], request)
    /\ ~tooFarToWalk(offers[pos], request)
    /\ ~wrongDirection(offers[pos], request)
    /\ ~detourTooLong(offers[pos], request)
    /\ Iterate

\* results.sort(...); return results;
SortAndReturn ==
    /\ pc = "loop"
    /\ pos > Len(offers)
    /\ results' \in sortByEngine(results)
    /\ engineSort' = [s \in DOMAIN engineSort \cup {results} |->
                          IF s = results THEN results' ELSE engineSort[s]]
    /\ pc' = "done"
    /\ UNCHANGED <<offers, request, currentTime, pos, returns, outsideMatcher>>

Next ==
    \/ SkipNoFreeSeats
    \/ SkipOutsideWindow
    \/ SkipTooFarToWalk
    \/ SkipWrongDirection
    \/ SkipDetourTooLong
    \/ PushResult
    \/ SortAndReturn

Spec == Init /\ [][Next]_vars

----------------------------------------------------------------------------
(* Several calls of findMatches on the same offers array and the same      *)
(* request object, one after the other.  A call's third argument is a      *)
(* Date given by the caller or, when it is left out as HomeScreen does,    *)
(* new Date(): CallTimes are the values it takes, before and after every   *)
(* departure time of the inputs.                                           *)

MaxCalls == 2

CallTimes == {ReqTime - 3 * 60 * 1000, ReqTime + 60 * 60 * 1000}

\* One offer for each of the four `continue` statements that the context
\* offers do not reach.
CallProbeOffers ==
    {[BaseOffer EXCEPT !.freeSeats = 0],
     [BaseOffer EXCEPT !.departureTime = ReqTime + 15 * 60 * 1000 + 1],
     [BaseOffer EXCEPT !.route = <<P(3), P(1)>>],
     [BaseOffer EXCEPT !.departure = P(7), !.destination = P(9)]}

CallOfferLists == ContextLists \cup {<<p>> : p \in CallProbeOffers}

\* Mutant: the results array is kept in a variable outside the function and
\* is not emptied at the start of a call.
reusedResults(previous) == previous

\* const results = [] at the start of a call; previous is the array that the
\* call before it built.
freshResults(previous) == <<>>

InitCalls ==
    /\ offers \in CallOfferLists
    /\ request \in Requests
    /\ currentTime \in CallTimes
    /\ pc = "loop"
    /\ pos = 1
    /\ results = <<>>
    /\ returns = <<>>
    /\ engineSort = <<>>
    /\ estimate = Num(0)
    /\ NoHomeScreen
    /\ NoMap

\* The call has returned and findMatches is called again with the same offers
\* and request.
CallAgain ==
    /\ pc = "done"
    /\ Len(returns) + 1 < MaxCalls
    /\ returns' = Append(returns, [now |-> currentTime, value |-> results])
    /\ currentTime' \in CallTimes
    /\ results' = freshResults(results)
    /\ pos' = 1
    /\ pc' = "loop"
    /\ UNCHANGED <<offers, request, engineSort, outsideMatcher>>

NextCalls == Next \/ CallAgain

SpecCalls == InitCalls /\ [][NextCalls]_vars

----------------------------------------------------------------------------
(* The end of the loop body (the detour test, the score and the push) for  *)
(* a value of estimateDetourDistance that is given.  In double arithmetic  *)
(* the sum toPickup + betweenStops + toDestination is rounded three times  *)
(* and can come out below directDistance when the four points lie on one   *)
(* great circle, which the exact distances of haversineDistance above      *)
(* never do: estimate stands for the rounded value.  The offers are those  *)
(* that reach the detour test.                                             *)

HalfMeters(n) == [kind |-> "num", v |-> n * (Scale \div 2)]

\* The smallest step of the model below zero (the code's rounded values are
\* some 1e-13 m below zero), zero, and values up to and around the ceiling
\* of 5 minutes (2500 m).
DetourEstimates ==
    {HalfMeters(n) : n \in {0 - 1, 0, 1, 1000, 4999, 5000, 5001, 7000}}

TailOffers ==
    {[BaseOffer EXCEPT !.maxDetourMinutes = m, !.route = r] :
        m \in {Num(0 - 1), Num(0), Num(3), Num(10)},
        r \in {<<P(1), P(3)>>, <<P(2), P(3)>>, <<P(0), P(1), P(2), P(4)>>}}

tailBody(acc, offer, ref, req, detourMetersValue) ==
    LET minutes == detourDistanceToMinutes(detourMetersValue)
    IN  IF exceedsDetour(minutes, offer) THEN acc
        ELSE Append(acc, [offer |-> ref,
                          score |-> scoreFrom(minutes, pickupDistance(offer, req),
                                              dropoffDistance(offer, req))])

InitDetour ==
    /\ offers \in {<<o>> : o \in TailOffers}
    /\ request \in Requests
    /\ ~noFreeSeats(offers[1])
    /\ ~outsideWindow(offers[1], request)
    /\ ~tooFarToWalk(offers[1], request)
    /\ ~wrongDirection(offers[1], request)
    /\ currentTime \in CurrentTimes
    /\ estimate \in DetourEstimates
    /\ pc = "detour"
    /\ pos = 1
    /\ results = <<>>
    /\ returns = <<>>
    /\ engineSort = <<>>
    /\ NoHomeScreen
    /\ NoMap

AtDetourTest == pc = "detour" /\ pos <= Len(offers)

TailStep ==
    /\ results' = tailBody(results, offers[pos], pos, request, estimate)
    /\ pos' = pos + 1
    /\ UNCHANGED <<offers, request, currentTime, pc, returns, engineSort, outsideMatcher>>

\* if (detourMinutes > offer.maxDetourMinutes || detourMinutes > 5) continue;
TailSkip ==
    /\ AtDetourTest
    /\ exceedsDetour(detourDistanceToMinutes(estimate), offers[pos])
    /\ TailStep

\* const score = ...; results.push({ offer, score });
TailPush ==
    /\ AtDetourTest
    /\ ~exceedsDetour(detourDistanceToMinutes(estimate), offers[pos])
    /\ TailStep

\* results.sort(...); return results;
TailReturn ==
    /\ pc = "detour"
    /\ pos > Len(offers)
    /\ results' \in sortByEngine(results)
    /\ engineSort' = [s \in DOMAIN engineSort \cup {results} |->
                          IF s = results THEN results' ELSE engineSort[s]]
    /\ pc' = "done"
    /\ UNCHANGED <<offers, request, currentTime, pos, returns, outsideMatcher>>

NextDetour == TailSkip \/ TailPush \/ TailReturn

SpecDetour == InitDetour /\ [][NextDetour]_vars

----------------------------------------------------------------------------
(* HomeScreen: the progress bar.  selectedRoute is null or the object that *)
(* the last setSelectedRoute was given (every call is given a new object,  *)
(* numbered from 1); effectPending says that the effect with dependency    *)
(* [selectedRoute] has to run for the value shown; intervalId is the id    *)
(* of the effect that ran last (null when it returned before               *)
(* setInterval) and progressTimers the intervals of window that are        *)
(* running.                                                                *)

MaxSelections == 2

ProgressEnd == 100

InitHome ==
    /\ NoCall
    /\ NoMap
    /\ selectedRoute = null
    /\ effectPending = TRUE
    /\ progress = 0
    /\ intervalId = null
    /\ progressTimers = {}
    /\ timersCreated = 0
    /\ homeMounted = TRUE

\* The object of the next call of setSelectedRoute.
newSelection == IF selectedRoute = null THEN 1 ELSE selectedRoute + 1

\* Mutant: the effect returns no cleanup function.
noCleanup(timers, id) == timers

\* return () => window.clearInterval(id);
cleanup(timers, id) == IF id = null THEN timers ELSE timers \ {id}

\* The updater given to setProgress.
nextProgress(value) == IF value >= ProgressEnd THEN ProgressEnd ELSE value + 1

\* setSelectedRoute({...}), from the effect that runs findMatches or from a
\* click on a route of the map.
SetSelectedRoute ==
    /\ homeMounted
    /\ newSelection <= MaxSelections
    /\ selectedRoute' = newSelection
    /\ effectPending' = TRUE
    /\ UNCHANGED <<progress, intervalId, progressTimers, timersCreated, homeMounted>>
    /\ UNCHANGED <<matcherVars, estimate, mapVars>>

\* The cleanup of the effect that ran before, then the effect itself.
RunProgressEffect ==
    /\ homeMounted
    /\ effectPending
    /\ effectPending' = FALSE
    /\ progress' = 0
    /\ IF selectedRoute = null
       THEN /\ intervalId' = null
            /\ progressTimers' = cleanup(progressTimers, intervalId)
            /\ UNCHANGED timersCreated
       ELSE /\ timersCreated' = timersCreated + 1
            /\ intervalId' = timersCreated'
            /\ progressTimers' = cleanup(progressTimers, intervalId) \cup {timersCreated'}
    /\ UNCHANGED <<selectedRoute, homeMounted>>
    /\ UNCHANGED <<matcherVars, estimate, mapVars>>

\* The callback of the interval id fires.
ProgressTick(id) ==
    /\ id \in progressTimers
    /\ progress' = nextProgress(progress)
    /\ progressTimers' = IF progress >= ProgressEnd THEN progressTimers \ {id}
                         ELSE progressTimers
    /\ UNCHANGED <<selectedRoute, effectPending, intervalId, timersCreated, homeMounted>>
    /\ UNCHANGED <<matcherVars, estimate, mapVars>>

ProgressTimerFires == \E id \in progressTimers : ProgressTick(id)

\* HomeScreen is unmounted: the cleanup of the last effect runs.
UnmountHome ==
    /\ homeMounted
    /\ homeMounted' = FALSE
    /\ progressTimers' = cleanup(progressTimers, intervalId)
    /\ UNCHANGED <<selectedRoute, effectPending, progress, intervalId, timersCreated>>
    /\ UNCHANGED <<matcherVars, estimate, mapVars>>

NextHome ==
    \/ SetSelectedRoute
    \/ RunProgressEffect
    \/ ProgressTimerFires
    \/ UnmountHome

\* React runs a pending effect, and the browser fires an interval that is
\* running over and over.
SpecHome ==
    /\ InitHome
    /\ [][NextHome]_vars
    /\ WF_vars(RunProgressEffect)
    /\ WF_vars(ProgressTimerFires)

----------------------------------------------------------------------------
(* Map: the animation of the PAR-103 marker.  par103Coords is the number   *)
(* of coordinates that the load handler stored before it registered the    *)
(* click handler (0 when the route could not be fetched); moveTimers maps  *)
(* the id of each interval that is running to the step of its closure;     *)
(* movingMarkerRef is null or the index in coords where the marker is.     *)

MaxCoords == 5

MaxClicks == 4

InitMap ==
    /\ NoCall
    /\ selectedRoute = null
    /\ effectPending = FALSE
    /\ progress = 0
    /\ intervalId = null
    /\ progressTimers = {}
    /\ timersCreated = 0
    /\ homeMounted = TRUE
    /\ par103Coords \in 0..MaxCoords
    /\ moveIntervalRef = null
    /\ moveTimers = <<>>
    /\ movingMarkerRef = null
    /\ clicks = 0
    /\ mapMounted = TRUE

\* window.clearInterval(id)
clearInterval(timers, id) == [i \in DOMAIN timers \ {id} |-> timers[i]]

\* Mutant: the interval that is running is left alone.
leaveRunning(timers, ref) == timers

\* if (moveIntervalRef.current != null) window.clearInterval(moveIntervalRef.current)
\* at the start of startPar103Animation.
stopRunning(timers, ref) == IF ref # null THEN clearInterval(timers, ref) ELSE timers

\* The click handler of the routes layer: startPar103Animation() and then
\* routeSelectRef.current(...), which is HomeScreen's setSelectedRoute.
ClickRoute ==
    /\ mapMounted
    /\ clicks < MaxClicks
    /\ clicks' = clicks + 1
    /\ IF par103Coords = 0
       THEN UNCHANGED <<moveIntervalRef, moveTimers, movingMarkerRef>>
       ELSE /\ moveIntervalRef' = clicks'
            /\ moveTimers' =
                  LET stopped == stopRunning(moveTimers, moveIntervalRef)
                  IN  [i \in DOMAIN stopped \cup {clicks'} |->
                          IF i = clicks' THEN 0 ELSE stopped[i]]
            /\ movingMarkerRef' = 0
    /\ selectedRoute' = newSelection
    /\ effectPending' = TRUE
    /\ UNCHANGED <<par103Coords, mapMounted>>
    /\ UNCHANGED <<progress, intervalId, progressTimers, timersCreated, homeMounted>>
    /\ UNCHANGED <<matcherVars, estimate>>

\* The callback of the interval id fires: step += 1, then either the interval
\* in moveIntervalRef is cleared or the marker moves to coords[step].  The
\* step of a closure is followed up to MaxCoords.
MoveTick(id) ==
    /\ id \in DOMAIN moveTimers
    /\ moveTimers[id] <= MaxCoords
    /\ IF movingMarkerRef = null
       THEN UNCHANGED <<moveIntervalRef, moveTimers, movingMarkerRef>>
       ELSE LET step == moveTimers[id] + 1
                stepped == [moveTimers EXCEPT ![id] = step]
            IN  IF step >= par103Coords
                THEN /\ moveTimers' = clearInterval(stepped, moveIntervalRef)
                     /\ moveIntervalRef' = null
                     /\ UNCHANGED movingMarkerRef
                ELSE /\ moveTimers' = stepped
                     /\ movingMarkerRef' = step
                     /\ UNCHANGED moveIntervalRef
    /\ UNCHANGED <<par103Coords, clicks, mapMounted>>
    /\ UNCHANGED <<matcherVars, estimate, homeVars>>

MoveTimerFires == \E id \in DOMAIN moveTimers : MoveTick(id)

\* The cleanup of Map's effect.
UnmountMap ==
    /\ mapMounted
    /\ mapMounted' = FALSE
    /\ moveTimers' = IF moveIntervalRef # null THEN clearInterval(moveTimers, moveIntervalRef)
                     ELSE moveTimers
    /\ moveIntervalRef' = null
    /\ movingMarkerRef' = null
    /\ UNCHANGED <<par103Coords, clicks>>
    /\ UNCHANGED <<matcherVars, estimate, homeVars>>

NextMap ==
    \/ ClickRoute
    \/ MoveTimerFires
    \/ UnmountMap

SpecMap == InitMap /\ [][NextMap]_vars

----------------------------------------------------------------------------
(* Vocabulary of the properties, stated from the geometry and not from the *)
(* matcher's own operators.                                                *)

Offered == 1..Len(offers)

\* Offer k of the input is in the returned list.
Returned(k) == pc = "done" /\ \E j \in 1..Len(results) : results[j].offer = k

ToleranceMs == IF request.rideNow THEN 5 * 60 * 1000 ELSE 15 * 60 * 1000

InClosedWindow(o) ==
    /\ o.departureTime >= request.departureTime - ToleranceMs
    /\ o.departureTime <= request.departureTime + ToleranceMs

\* The distances from point to the waypoints of route that are numbers.
WaypointDistances(point, route) ==
    {d \in {haversineDistance(point, route[k]) : k \in 1..Len(route)} : ~IsNaN(d)}

\* The least of them; Infinity when there is none.
MinWaypointDistance(point, route) ==
    LET ds == WaypointDistances(point, route)
    IN  IF ds = {} THEN Infinity
        ELSE CHOOSE m \in ds : \A d \in ds : Le(m, d)

\* The lowest 0-based index of a waypoint at that least distance; -1 when
\* there is none.
NearestWaypointIndex(point, route) ==
    LET m == MinWaypointDistance(point, route)
    IN  IF WaypointDistances(point, route) = {} THEN -1
        ELSE CHOOSE i \in 0..(Len(route) - 1) :
                /\ haversineDistance(point, route[i + 1]) = m
                /\ \A j \in 0..(i - 1) : haversineDistance(point, route[j + 1]) # m

WalkOk(o) ==
    /\ Le(MinWaypointDistance(request.from, o.route), request.maxWalkMeters)
    /\ Le(MinWaypointDistance(request.to, o.route), request.maxWalkMeters)

DirectionOk(o) ==
    LET p == NearestWaypointIndex(request.from, o.route)
        d == NearestWaypointIndex(request.to, o.route)
    IN  p >= 0 /\ d >= 0 /\ p < d

\* (dist(departure, from) + dist(from, to) + dist(to, destination)
\*  - dist(departure, destination)) at 500 m per minute.
DetourMinutesOf(o) ==
    Div(Sub(Add(Add(haversineDistance(o.departure, request.from),
                    haversineDistance(request.from, request.to)),
                haversineDistance(request.to, o.destination)),
            haversineDistance(o.departure, o.destination)),
        Num(500))

\* The detour exceeds neither the offer's limit nor the ceiling of 5 minutes.
DetourNotExceeded(o) ==
    /\ ~Gt(DetourMinutesOf(o), o.maxDetourMinutes)
    /\ ~Gt(DetourMinutesOf(o), Num(5))

MinOf(x, y) == IF Lt(y, x) THEN y ELSE x

----------------------------------------------------------------------------
(* Properties of findMatches.                                              *)

\* C1: an offer is returned only if its departureTime lies in the closed
\* interval [request.departureTime - tolerance, request.departureTime +
\* tolerance], tolerance being 5 minutes when rideNow and 15 otherwise; an
\* offer exactly at a boundary that passes the four other filters is returned.
C1_TimeWindow ==
    \A k \in Offered :
        /\ Returned(k) => InClosedWindow(offers[k])
        /\ (/\ pc = "done"
            /\ offers[k].departureTime \in {request.departureTime - ToleranceMs,
                                            request.departureTime + ToleranceMs}
            /\ offers[k].freeSeats > 0
            /\ WalkOk(offers[k])
            /\ DirectionOk(offers[k])
            /\ DetourNotExceeded(offers[k]))
           => Returned(k)

\* A rideNow request for which an offer departing exactly 5 minutes later is
\* returned.
C1_Witness ==
    \E k \in Offered :
        /\ Returned(k)
        /\ request.rideNow
        /\ offers[k].departureTime = request.departureTime + 5 * 60 * 1000

\* C2: every returned offer has detourMinutes <= min(maxDetourMinutes, 5).
C2_DetourBound ==
    \A k \in Offered :
        Returned(k) =>
            Le(DetourMinutesOf(offers[k]), MinOf(offers[k].maxDetourMinutes, Num(5)))

\* C3: an offer whose nearest-to-pickup waypoint index is greater than or
\* equal to its nearest-to-dropoff waypoint index, or for which one of the two
\* is the sentinel -1, is never returned.
C3_Direction ==
    \A k \in Offered :
        Returned(k) =>
            LET p == NearestWaypointIndex(request.from, offers[k].route)
                d == NearestWaypointIndex(request.to, offers[k].route)
            IN  ~(p >= d \/ p = -1 \/ d = -1)

\* An offer left out by the direction filter alone: seats, time, walking
\* distance (zero) and detour (zero) are fine, the drop-off is nearest to
\* route index 0 and the pickup to a later index.
C3_Witness ==
    /\ pc = "done"
    /\ \E k \in Offered :
        /\ ~Returned(k)
        /\ offers[k].freeSeats > 0
        /\ InClosedWindow(offers[k])
        /\ MinWaypointDistance(request.from, offers[k].route) = Num(0)
        /\ MinWaypointDistance(request.to, offers[k].route) = Num(0)
        /\ DetourMinutesOf(offers[k]) = Num(0)
        /\ NearestWaypointIndex(request.to, offers[k].route) = 0
        /\ NearestWaypointIndex(request.from, offers[k].route) > 0

\* C4: for every returned offer pickupDistance and dropoffDistance are the
\* least distances from request.from and from request.to to the waypoints of
\* its route, and both are <= request.maxWalkMeters; an offer for which both
\* are <= maxWalkMeters, one of them exactly equal, and that passes the four
\* other filters is returned.
C4_WalkingDistance ==
    \A k \in Offered :
        /\ Returned(k) =>
              /\ WalkOk(offers[k])
              /\ pickupDistance(offers[k], request)
                    = MinWaypointDistance(request.from, offers[k].route)
              /\ dropoffDistance(offers[k], request)
                    = MinWaypointDistance(request.to, offers[k].route)
        /\ (/\ pc = "done"
            /\ WalkOk(offers[k])
            /\ request.maxWalkMeters \in
                  {MinWaypointDistance(request.from, offers[k].route),
                   MinWaypointDistance(request.to, offers[k].route)}
            /\ offers[k].freeSeats > 0
            /\ InClosedWindow(offers[k])
            /\ DirectionOk(offers[k])
            /\ DetourNotExceeded(offers[k]))
           => Returned(k)

\* A returned offer whose pickup walk equals maxWalkMeters = 250 m: the rider
\* stands between two waypoints of the route, 250 m from the nearer one.
C4_Witness ==
    \E k \in Offered :
        /\ Returned(k)
        /\ request.maxWalkMeters = Num(UnitMeters)
        /\ MinWaypointDistance(request.from, offers[k].route) = request.maxWalkMeters
        /\ \E a, b \in 1..Len(offers[k].route) :
              /\ Lt(offers[k].route[a].lon, request.from.lon)
              /\ Lt(request.from.lon, offers[k].route[b].lon)

\* C5: an offer with freeSeats <= 0 never appears in the result.
C5_Capacity ==
    /\ \A k \in Offered : offers[k].freeSeats <= 0 => ~Returned(k)
    /\ \A j \in 1..Len(results) : offers[results[j].offer].freeSeats > 0

\* An offer with a negative seat count that passes the four other filters and
\* is not returned.
C5_Witness ==
    /\ pc = "done"
    /\ \E k \in Offered :
        /\ offers[k].freeSeats < 0
        /\ InClosedWindow(offers[k])
        /\ WalkOk(offers[k])
        /\ DirectionOk(offers[k])
        /\ DetourNotExceeded(offers[k])
        /\ ~Returned(k)

PassesAllFilters(o) ==
    /\ o.freeSeats > 0
    /\ InClosedWindow(o)
    /\ WalkOk(o)
    /\ DirectionOk(o)
    /\ DetourNotExceeded(o)

\* The body of the loop with its five tests made in the opposite order.
LoopBodyReversed(acc, offer, ref, req) ==
    IF detourTooLong(offer, req) THEN acc
    ELSE IF wrongDirection(offer, req) THEN acc
    ELSE IF tooFarToWalk(offer, req) THEN acc
    ELSE IF outsideWindow(offer, req) THEN acc
    ELSE IF noFreeSeats(offer) THEN acc
    ELSE Append(acc, [offer |-> ref, score |-> score(offer, req)])

\* C6: the returned list holds exactly the input offers that satisfy the
\* conjunction of the five filter predicates, each once per occurrence in the
\* input and nothing else (so it is empty when no offer passes), and making
\* the five tests in the opposite order gives the same entries.
C6_ExactlyThePassingOffers ==
    pc = "done" =>
        LET passing == {k \in Offered : PassesAllFilters(offers[k])}
        IN
        /\ \A j \in 1..Len(results) : results[j].offer \in Offered
        /\ \A k \in Offered :
              Cardinality({j \in 1..Len(results) : results[j].offer = k})
                  = IF k \in passing THEN 1 ELSE 0
        /\ (passing = {} => results = <<>>)
        /\ \A k \in Offered :
              LoopBodyReversed(<<>>, offers[k], k, request) = loopBody(<<>>, offers[k], k, request)

\* A call with the same offer twice in the input, both returned, or with one
\* offer returned and another one filtered out.
C6_Witness ==
    /\ pc = "done"
    /\ Len(offers) = 2
    /\ \/ offers[1] = offers[2] /\ Len(results) = 2
       \/ Returned(1) /\ ~Returned(2)

\* C7: every returned entry has score = detourMinutes * 2 + (pickupDistance +
\* dropoffDistance) / 1000, with the detour and the two least waypoint
\* distances of its own offer.
C7_Score ==
    \A j \in 1..Len(results) :
        LET o == offers[results[j].offer]
        IN  results[j].score =
                Add(Mul(DetourMinutesOf(o), Num(2)),
                    Div(Add(MinWaypointDistance(request.from, o.route),
                            MinWaypointDistance(request.to, o.route)),
                        Num(1000)))

\* A returned offer with a 4-minute detour and 250 m of walking: score 8.25.
C7_Witness ==
    /\ pc = "done"
    /\ \E j \in 1..Len(results) :
          /\ DetourMinutesOf(offers[results[j].offer]) = Num(4)
          /\ MinWaypointDistance(request.from, offers[results[j].offer].route) = Num(250)
          /\ results[j].score = [kind |-> "num", v |-> 8250]

\* C8: the returned list is sorted ascending by score: each entry's score is
\* <= the score of the entry after it.
C8_SortedAscending ==
    pc = "done" =>
        \A i \in 1..(Len(results) - 1) : Le(results[i].score, results[i + 1].score)

RemoveAt(s, x) == SubSeq(s, 1, x - 1) \o SubSeq(s, x + 1, Len(s))

\* C9: for every offer x of the list, every other offer is in the result of
\* the call with x present if and only if it is in the result of the call on
\* the list without x, and with the same score.
C9_Isolation ==
    pc = "done" =>
        \A x \in Offered :
            \A without \in findMatches(RemoveAt(offers, x), request, currentTime) :
                \A k \in Offered \ {x} :
                    LET k2 == IF k < x THEN k ELSE k - 1
                    IN  /\ (\E j \in 1..Len(results) : results[j].offer = k)
                           <=> (\E i \in 1..Len(without) : without[i].offer = k2)
                        /\ \A j \in 1..Len(results), i \in 1..Len(without) :
                              (results[j].offer = k /\ without[i].offer = k2)
                              => results[j].score = without[i].score

HasNonFiniteCoordinate(o) ==
    \/ ~IsFinite(o.departure.lat) \/ ~IsFinite(o.departure.lon)
    \/ ~IsFinite(o.destination.lat) \/ ~IsFinite(o.destination.lon)
    \/ \E w \in 1..Len(o.route) : ~IsFinite(o.route[w].lat) \/ ~IsFinite(o.route[w].lon)

\* A call in which a malformed offer x (non-finite departure) comes before a
\* well-formed offer that is returned.
C9_Witness ==
    /\ pc = "done"
    /\ \E x, k \in Offered :
          /\ x < k
          /\ HasNonFiniteCoordinate(offers[x])
          /\ Returned(x)
          /\ ~HasNonFiniteCoordinate(offers[k])
          /\ Returned(k)

\* C10: an offer with a non-finite coordinate in its departure, destination or
\* route is not returned, and no returned entry has a non-finite score.
C10_NonFiniteFilteredOut ==
    /\ \A k \in Offered : HasNonFiniteCoordinate(offers[k]) => ~Returned(k)
    /\ \A j \in 1..Len(results) : IsFinite(results[j].score)

\* Values of request.maxWalkMeters, well-formed or not.
WalkLimits ==
    {Num(0), Num(UnitMeters), Num(0 - 1), Infinity, NegInfinity, NaN}

\* C11: an offer with an empty route is never returned, whatever
\* request.maxWalkMeters is: its two nearest-waypoint distances are Infinity and
\* its two nearest-waypoint indices are -1 (no waypoint is read), and the body
\* of the loop leaves it out at the walking-distance test or, when that test
\* lets it through, at the direction test.
C11_EmptyRoute ==
    \A k \in Offered :
        offers[k].route = <<>> =>
            /\ ~Returned(k)
            /\ pickupDistance(offers[k], request) = Infinity
            /\ dropoffDistance(offers[k], request) = Infinity
            /\ pickupIdx(offers[k], request) = -1
            /\ dropoffIdx(offers[k], request) = -1
            /\ \A w \in WalkLimits :
                  LET req == [request EXCEPT !.maxWalkMeters = w]
                  IN  /\ tooFarToWalk(offers[k], req) \/ wrongDirection(offers[k], req)
                      /\ loopBody(results, offers[k], k, req) = results

\* A finished call with maxWalkMeters = Infinity and an offer with an empty
\* route that has a free seat, departs inside the window and has no detour:
\* the walking-distance test lets it through and it is not returned.
C11_Witness ==
    /\ pc = "done"
    /\ request.maxWalkMeters = Infinity
    /\ \E k \in Offered :
          /\ offers[k].route = <<>>
          /\ offers[k].freeSeats > 0
          /\ InClosedWindow(offers[k])
          /\ DetourNotExceeded(offers[k])
          /\ ~tooFarToWalk(offers[k], request)
          /\ ~Returned(k)

\* C12: two calls of findMatches with the same offers, the same request and
\* the same currentTime return the same array: same length, same offers in
\* the same order, same scores; nothing of a call is left for the next one.
C12_Determinism ==
    pc = "done" =>
        \A i \in 1..Len(returns) :
            returns[i].now = currentTime => results = returns[i].value

\* A second call with the currentTime of the first that returns three entries,
\* one of them with a NaN score (the order of the sort is then the engine's).
C12_Witness ==
    /\ pc = "done"
    /\ Len(returns) >= 1
    /\ returns[1].now = currentTime
    /\ Len(results) = 3
    /\ \E j \in 1..Len(results) : IsNaN(results[j].score)
    /\ \E j \in 1..Len(results) : IsFinite(results[j].score)

\* C13: no step of findMatches changes the offers array (its length, the
\* order of its elements, any field of any offer, any route) or the request,
\* and every entry of the result refers to an element of offers; the sort
\* reorders the result only.
C13_InputsUnchanged ==
    /\ [][offers' = offers /\ request' = request]_vars
    /\ [](\A j \in 1..Len(results) : results[j].offer \in Offered)

\* A returned list whose order differs from the order of the input: the first
\* entry refers to a later offer than the second.
C13_Witness ==
    /\ pc = "done"
    /\ Len(results) >= 2
    /\ results[1].offer > results[2].offer
    /\ Lt(results[1].score, results[2].score)

\* C14: when the value of estimateDetourDistance is negative and the offer's
\* maxDetourMinutes is >= 0, the offer passes the detour test and its score
\* is (estimate / 500) * 2 + (pickupDistance + dropoffDistance) / 1000 with
\* the negative estimate as it is, which is below the walking term.
C14_NegativeDetourNotClamped ==
    pc = "done" =>
        \A k \in Offered :
            (Lt(estimate, Num(0)) /\ Le(Num(0), offers[k].maxDetourMinutes)) =>
                LET walkingTerm ==
                        Div(Add(MinWaypointDistance(request.from, offers[k].route),
                                MinWaypointDistance(request.to, offers[k].route)),
                            Num(1000))
                IN  /\ Returned(k)
                    /\ \A j \in 1..Len(results) :
                          results[j].offer = k =>
                              /\ results[j].score =
                                    Add(Mul(Div(estimate, Num(500)), Num(2)), walkingTerm)
                              /\ Lt(results[j].score, walkingTerm)

\* An estimate of half a metre below zero for an offer with maxDetourMinutes
\* = 0 and a walk of 250 m: it is returned with a score below 0.25.
C14_Witness ==
    /\ pc = "done"
    /\ estimate = HalfMeters(0 - 1)
    /\ \E j \in 1..Len(results) :
          /\ offers[results[j].offer].maxDetourMinutes = Num(0)
          /\ Lt(results[j].score, [kind |-> "num", v |-> 250])
          /\ Lt(Num(0), results[j].score)

\* C15: for request.from and request.to and every offered route, the index
\* computed by the reduce is the lowest index whose waypoint is at the least
\* distance from the point, and it is -1 only when the route is empty.
C15_NearestWaypointIndex ==
    \A k \in Offered :
        \A point \in {request.from, request.to} :
            LET route == offers[k].route
                idx   == nearestReduce(point, route, 0, -1)
            IN  /\ idx = -1 => route = <<>>
                /\ route # <<>> =>
                      /\ idx \in 0..(Len(route) - 1)
                      /\ \A i \in 0..(Len(route) - 1) :
                            /\ Le(haversineDistance(point, route[idx + 1]),
                                  haversineDistance(point, route[i + 1]))
                            /\ i < idx => Lt(haversineDistance(point, route[idx + 1]),
                                             haversineDistance(point, route[i + 1]))

\* The coordinates in the inputs of the call.
InputPoints ==
    {request.from, request.to}
    \cup {offers[k].departure : k \in Offered}
    \cup {offers[k].destination : k \in Offered}
    \cup UNION {Elements(offers[k].route) : k \in Offered}

\* x == y of JavaScript numbers.
NumEq(x, y) == ~IsNaN(x) /\ ~IsNaN(y) /\ x = y

\* C16: for all coordinates a and b, haversineDistance(a, b) ==
\* haversineDistance(b, a), haversineDistance(a, a) == 0, and
\* haversineDistance(a, b) == 0 only when a = b.
C16_HaversineSymmetricZero ==
    \A a, b \in InputPoints :
        /\ NumEq(haversineDistance(a, b), haversineDistance(b, a))
        /\ NumEq(haversineDistance(a, a), Num(0))
        /\ NumEq(haversineDistance(a, b), Num(0)) => a = b

\* C17: a call returns the same array as every earlier call on the same
\* offers and request, whatever the currentTime of the two calls, and an
\* offer is outside the window exactly when its departureTime is outside
\* [request.departureTime - tolerance, request.departureTime + tolerance].
C17_CurrentTimeIgnored ==
    /\ pc = "done" => \A i \in 1..Len(returns) : results = returns[i].value
    /\ \A k \in Offered : outsideWindow(offers[k], request) <=> ~InClosedWindow(offers[k])

\* A second call, an hour of currentTime after the first, that returns an
\* offer.
C17_Witness ==
    /\ pc = "done"
    /\ Len(returns) >= 1
    /\ returns[1].now < currentTime
    /\ results # <<>>

\* C18: progress is an integer in 0..100; when the effect runs for a new
\* selectedRoute every interval that was running is cleared and progress is
\* 0; a tick raises progress by exactly 1 while it is below 100 and leaves it
\* at 100 otherwise; and when selectedRoute stays the same object from some
\* moment on, progress eventually is 100 for good.
C18_ProgressBar ==
    /\ [](progress \in 0..ProgressEnd)
    /\ [][(effectPending /\ ~effectPending')
            => (progress' = 0 /\ progressTimers' \cap progressTimers = {})]_vars
    /\ [][(UNCHANGED <<selectedRoute, effectPending, homeMounted>>)
            => IF progress < ProgressEnd
               THEN progress' = progress + 1 /\ UNCHANGED progressTimers
               ELSE progress' = ProgressEnd]_homeVars
    /\ \A r \in 1..MaxSelections :
          <>[](selectedRoute = r /\ homeMounted) => <>[](progress = ProgressEnd)

\* The bar of the second selected route is full and its interval has cleared
\* itself.
C18_Witness ==
    /\ homeMounted
    /\ selectedRoute = 2
    /\ ~effectPending
    /\ timersCreated = 2
    /\ progress = ProgressEnd
    /\ progressTimers = {}

\* C19: at most one animation interval is running, and it is the one in
\* moveIntervalRef; a running interval's step is below coords.length; the
\* marker is at coords[step] with 0 <= step <= coords.length - 1; a click
\* (with coordinates loaded) leaves exactly one interval, a new one at step 0,
\* and the marker at coords[0]; after unmount no interval is running.
C19_MarkerAnimation ==
    /\ [](/\ Cardinality(DOMAIN moveTimers) <= 1
          /\ DOMAIN moveTimers \subseteq {moveIntervalRef}
          /\ \A id \in DOMAIN moveTimers : moveTimers[id] \in 0..(par103Coords - 1)
          /\ movingMarkerRef # null => movingMarkerRef \in 0..(par103Coords - 1)
          /\ ~mapMounted => DOMAIN moveTimers = {})
    /\ [][(clicks' # clicks /\ par103Coords > 0)
            => /\ movingMarkerRef' = 0
               /\ DOMAIN moveTimers' = {moveIntervalRef'}
               /\ moveIntervalRef' \notin DOMAIN moveTimers
               /\ moveTimers'[moveIntervalRef'] = 0]_vars

\* The animation started by a second click, while the first was running, has
\* reached the last coordinate and its interval has cleared itself.
C19_Witness ==
    /\ mapMounted
    /\ par103Coords >= 2
    /\ clicks >= 2
    /\ movingMarkerRef = par103Coords - 1
    /\ moveIntervalRef = null
    /\ moveTimers = <<>>

====
